---- MODULE Spec2Model ----
(***************************************************************************)
(* heygpt (src/main.rs): a command-line chat client.  The model covers the *)
(* Session: run_one_shot, run_interactive, complete_and_print,             *)
(* do_stream_request and do_non_stream_request.                            *)
(*                                                                         *)
(* A string is a sequence of atoms.  The atoms of a content string are     *)
(* its characters; a role ("user", "assistant") and a label printed by the *)
(* session ("assistant => ", "CTRL-C") are one atom each.  push_str is \o. *)
(* Option<T> is a sequence of length 0 (None) or 1 (Some).                 *)
(* Line-editing history (rl.add_history_entry, load_history) is not part   *)
(* of the model except where its failure decides the session's result.     *)
(***************************************************************************)
EXTENDS Naturals, Sequences, FiniteSets, TLC

VARIABLES
    options,        \* Session.options: the command line, fixed at startup
    messages,       \* Session.messages: the transcript
    pc,             \* where the session is: main, readline, stream, non_stream,
                    \*   exit_ok (main returned Ok), exit_err (main returned Err), panic
    full_message,   \* do_stream_request's accumulator
    es,             \* the EventSource of the current do_stream_request:
                    \*   none, open, closed (es.close()), dropped (left scope while open)
    events,         \* the events es.next() has yielded in the current call, oldest first
    stdout,         \* everything printed so far
    call_start,     \* Len(stdout) when the current complete_and_print was entered
    requests,       \* every Request built by complete_and_print, oldest first
    response,       \* what the last complete_and_print returned: None before it returns
    readline,       \* run_interactive's local: what rl.readline() returned last
    delivered,      \* number of delta frames the server has delivered so far
    stripped,       \* number of content fragments of the current call that the
                    \*   leading-newline trick changed before print! and push_str
    body,           \* do_non_stream_request's local response: the choices of the
                    \*   ResponseMessage it parsed, None before that
    history         \* what rl.append_history() did: unsaved, appended, failed

vars == << options, messages, pc, full_message, es, events, stdout, call_start,
           requests, response, readline, delivered, stripped, body, history >>

----------------------------------------------------------------------------
(* Bounds of the model *)

\* delta frames delivered by the server over one session
MaxEvents == 2
\* completion requests of one session
MaxTurns == 2

----------------------------------------------------------------------------
(* Strings *)

NL == "\n"
SP == " "

None == << >>
Some(x) == << x >>

\* char::is_whitespace, on the characters of the model
IsWhitespace(c) == c \in {NL, SP}

\* str::starts_with("\n")
StartsWithNewline(s) == Len(s) > 0 /\ Head(s) = NL

\* str::trim_start: the string without its leading run of whitespace
RECURSIVE trim_start(_)
trim_start(s) ==
    IF Len(s) > 0 /\ IsWhitespace(Head(s)) THEN trim_start(Tail(s)) ELSE s

\* [String]::join(sep)
RECURSIVE join(_, _)
join(words, sep) ==
    IF Len(words) = 0 THEN << >>
    ELSE IF Len(words) = 1 THEN Head(words)
    ELSE Head(words) \o sep \o join(Tail(words), sep)

----------------------------------------------------------------------------
(* Inputs *)

\* content fragments the server sends (delta.content, message.content)
Fragments ==
    { << >>, <<NL>>, <<NL, "a">>, <<NL, SP, "a">>, <<SP, "a">>, <<"a">> }

\* role fragments the server sends
Roles == { <<"assistant">> }

\* lines rl.readline() returns
Lines == { << >>, <<"a">> }

\* options.prompt: empty selects interactive mode
Prompts == { << >>, << <<"a">> >>, << <<"a">>, <<"a", "a">> >> }

\* options.model, options.temperature and options.top_p: the defaults, and
\* a command line that sets all three
Configs ==
    { [model |-> "gpt-3.5-turbo", temperature |-> None, top_p |-> None],
      [model |-> "gpt-4", temperature |-> << "0.8" >>, top_p |-> << "0.1" >>] }

Option(S) == { None } \cup { Some(x) : x \in S }

\* Message (model.rs): role and content
Message(role, content) == [role |-> role, content |-> content]

\* Message::default()
DefaultMessage == Message(<< >>, << >>)

\* ResponseStreamMessage.choices[i].delta
Deltas == [role : Option(Roles), content : Option(Fragments)]

\* The data of an Event::Message: the "[DONE]" sentinel, text that
\* serde_json::from_str rejects, or a JSON object of the
\* ResponseStreamMessage shape with its choices.
DoneData == [kind |-> "done", choices |-> << >>]
GarbageData == [kind |-> "garbage", choices |-> << >>]
JsonData(choices) == [kind |-> "json", choices |-> choices]

StreamData ==
    { DoneData, GarbageData, JsonData(<< >>) }
        \cup { JsonData(<< [delta |-> d] >>) : d \in Deltas }

\* serde_json::from_str::<ResponseStreamMessage>(&message.data)
from_str(data) ==
    IF data.kind = "json" THEN [ok |-> TRUE, choices |-> data.choices]
    ELSE [ok |-> FALSE, choices |-> << >>]

\* message.content of a candidate of a non-streaming response
Contents == Fragments \cup { <<"a", NL, "a">> }

\* The body of a non-streaming response: the choices of the
\* ResponseMessage, with no candidate, one, or a second one after it
Bodies ==
    LET first == { [message |-> Message(r, c)] : r \in Roles, c \in Contents }
        second == [message |-> Message(<<"assistant">>, <<SP, "a">>)]
    IN  { << >> } \cup { << m >> : m \in first } \cup { << m, second >> : m \in first }

\* Result<Message>
Ok(m) == [ok |-> TRUE, msg |-> m]
Err == [ok |-> FALSE, msg |-> DefaultMessage]

interactive == options.prompt = << >>

----------------------------------------------------------------------------
(* Initial state: after Session::new *)

Init ==
    /\ \E no_stream \in BOOLEAN, config \in Configs, prompt \in Prompts :
          options = [ no_stream |-> no_stream, model |-> config.model,
                      temperature |-> config.temperature, top_p |-> config.top_p,
                      prompt |-> prompt ]
    /\ messages = << >>
    /\ pc = "main"
    /\ full_message = DefaultMessage
    /\ es = "none"
    /\ events = << >>
    /\ stdout = << >>
    /\ call_start = 0
    /\ requests = << >>
    /\ response = None
    /\ readline = "none"
    /\ delivered = 0
    /\ stripped = 0
    /\ body = None
    /\ history = "unsaved"

----------------------------------------------------------------------------
(* complete_and_print *)

\* Mutant of Request: the sampling options go out with the first request only
Request_options_once(msgs) ==
    [ model |-> options.model,
      stream |-> ~options.no_stream,
      messages |-> msgs,
      temperature |-> IF Len(msgs) = 1 THEN options.temperature ELSE None,
      top_p |-> IF Len(msgs) = 1 THEN options.top_p ELSE None ]

\* Mutant of Request: only the newest message is sent
Request_last_only(msgs) ==
    [ model |-> options.model,
      stream |-> ~options.no_stream,
      messages |-> << msgs[Len(msgs)] >>,
      temperature |-> options.temperature,
      top_p |-> options.top_p ]

\* The Request complete_and_print builds from the options and the transcript
Request(msgs) ==
    [ model |-> options.model,
      stream |-> ~options.no_stream,
      messages |-> msgs,
      temperature |-> options.temperature,
      top_p |-> options.top_p ]

\* complete_and_print up to its first await: the request is built from the
\* transcript msgs and handed to do_stream_request (which creates the
\* accumulator and the EventSource) or to do_non_stream_request.
complete_and_print(msgs) ==
    /\ requests' = Append(requests, Request(msgs))
    /\ response' = None
    /\ events' = << >>
    /\ stripped' = 0
    /\ body' = None
    /\ IF ~options.no_stream
       THEN /\ pc' = "stream"
            /\ full_message' = DefaultMessage
            /\ es' = "open"
       ELSE /\ pc' = "non_stream"
            /\ UNCHANGED << full_message, es >>

\* What the caller of complete_and_print does with its result res:
\* run_one_shot returns it (the message is discarded), run_interactive
\* pushes the message and loops, and `?` ends the session on an error.
Return(res) ==
    /\ response' = Some(res)
    /\ IF ~res.ok
       THEN pc' = "exit_err" /\ UNCHANGED messages
       ELSE IF interactive
       THEN pc' = "readline" /\ messages' = Append(messages, res.msg)
       ELSE pc' = "exit_ok" /\ UNCHANGED messages

----------------------------------------------------------------------------
(* main, run_one_shot, run_interactive *)

run_one_shot ==
    /\ pc = "main"
    /\ ~interactive
    /\ LET msgs == Append(messages,
                          Message(<<"user">>, join(options.prompt, <<SP>>)))
       IN  /\ messages' = msgs
           /\ complete_and_print(msgs)
    /\ call_start' = Len(stdout)
    /\ UNCHANGED << options, stdout, readline, delivered, history >>

\* run_interactive up to the loop: DefaultEditor::new() may fail, and
\* dirs::home_dir().unwrap() panics when there is no home directory.
run_interactive ==
    /\ pc = "main"
    /\ interactive
    /\ \E env \in {"ok", "no_editor", "no_home"} :
          pc' = CASE env = "ok" -> "readline"
                  [] env = "no_editor" -> "exit_err"
                  [] env = "no_home" -> "panic"
    /\ UNCHANGED << options, messages, full_message, es, events, stdout,
                    call_start, requests, response, readline, delivered,
                    stripped, body, history >>

\* Mutant of ReadEmptyLine: the empty line is sent like any other line
ReadEmptyLine_sends ==
    /\ pc = "readline"
    /\ Len(requests) < MaxTurns
    /\ readline' = "Ok(empty)"
    /\ LET msgs == Append(messages, Message(<<"user">>, << >>))
           out == stdout \o <<"assistant => ">>
       IN  /\ messages' = msgs
           /\ stdout' = out
           /\ call_start' = Len(out)
           /\ complete_and_print(msgs)
    /\ UNCHANGED << options, delivered, history >>

\* readline returns Ok(line) with an empty line: continue
ReadEmptyLine ==
    /\ pc = "readline"
    /\ readline' = "Ok(empty)"
    /\ UNCHANGED << options, messages, pc, full_message, es, events, stdout,
                    call_start, requests, response, delivered, stripped,
                    body, history >>

\* readline returns Ok(line) with a non-empty line: the user message is
\* pushed, the label is printed and the completion is requested
ReadLine(line) ==
    /\ pc = "readline"
    /\ Len(requests) < MaxTurns
    /\ line # << >>
    /\ readline' = "Ok(line)"
    /\ LET msgs == Append(messages, Message(<<"user">>, line))
           out == stdout \o <<"assistant => ">>
       IN  /\ messages' = msgs
           /\ stdout' = out
           /\ call_start' = Len(out)
           /\ complete_and_print(msgs)
    /\ UNCHANGED << options, delivered, history >>

\* Mutant of ReadBreak: the signal is reported like any other read error
ReadBreak_bails(signal, history_ok) ==
    /\ pc = "readline"
    /\ readline' = IF signal = "CTRL-C" THEN "Err(Interrupted)" ELSE "Err(Eof)"
    /\ pc' = "exit_err"
    /\ UNCHANGED << options, messages, full_message, es, events, stdout,
                    call_start, requests, response, delivered, stripped, body,
                    history >>

\* readline returns Err(Interrupted) or Err(Eof): the loop is left and
\* rl.append_history(..)? decides the result
ReadBreak(signal, history_ok) ==
    /\ pc = "readline"
    /\ readline' = IF signal = "CTRL-C" THEN "Err(Interrupted)" ELSE "Err(Eof)"
    /\ stdout' = stdout \o << signal, NL >>
    /\ history' = IF history_ok THEN "appended" ELSE "failed"
    /\ pc' = IF history_ok THEN "exit_ok" ELSE "exit_err"
    /\ UNCHANGED << options, messages, full_message, es, events, call_start,
                    requests, response, delivered, stripped, body >>

\* readline returns any other Err: bail!
ReadError ==
    /\ pc = "readline"
    /\ readline' = "Err(other)"
    /\ pc' = "exit_err"
    /\ UNCHANGED << options, messages, full_message, es, events, stdout,
                    call_start, requests, response, delivered, stripped,
                    body, history >>

----------------------------------------------------------------------------
(* do_stream_request: one action per arm of the match on es.next() *)

NoData == [kind |-> "none", choices |-> << >>]
Event(type, data) == [type |-> type, data |-> data]

\* Mutant of strip_leading: the accumulator is not consulted
strip_leading_always(content, full_content) ==
    IF StartsWithNewline(content) THEN trim_start(content) ELSE content

\* Mutant of strip_leading: only the newline is removed (strip_prefix)
strip_leading_newline_only(content, full_content) ==
    IF StartsWithNewline(content) /\ full_content = << >>
    THEN Tail(content)
    ELSE content

\* The content fragment as printed and accumulated: "Sometimes the response
\* starts with a newline. Strip it here."
strip_leading(content, full_content) ==
    IF StartsWithNewline(content) /\ full_content = << >>
    THEN trim_start(content)
    ELSE content

\* Mutant of accumulate: the content is assigned, not appended
accumulate_replace(acc, delta) ==
    [ role |-> IF delta.role # None THEN acc.role \o delta.role[1] ELSE acc.role,
      content |-> IF delta.content # None
                  THEN strip_leading(delta.content[1], acc.content)
                  ELSE acc.content ]

\* Mutant of accumulate: a field the delta does not carry is reset
accumulate_assign(acc, delta) ==
    [ role |-> IF delta.role # None THEN acc.role \o delta.role[1] ELSE << >>,
      content |-> IF delta.content # None
                  THEN acc.content \o strip_leading(delta.content[1], acc.content)
                  ELSE acc.content ]

\* The accumulator after the delta: role and content are appended
accumulate(acc, delta) ==
    [ role |-> IF delta.role # None THEN acc.role \o delta.role[1] ELSE acc.role,
      content |-> IF delta.content # None
                  THEN acc.content \o strip_leading(delta.content[1], acc.content)
                  ELSE acc.content ]

\* Mutant of printed: the fragment is printed as it arrived
printed_raw(acc, delta) ==
    IF delta.content # None THEN delta.content[1] ELSE << >>

\* What print!("{}", content) writes for the delta
printed(acc, delta) ==
    IF delta.content # None
    THEN strip_leading(delta.content[1], acc.content)
    ELSE << >>

\* Mutant of drop: the EventSource outlives the call
drop_leak(e) == e

\* The EventSource when do_stream_request is left: a local, dropped with
\* the frame (also when a panic unwinds it)
drop(e) == IF e = "open" THEN "dropped" ELSE e

\* Ok(Event::Open): logged only.  The EventSource yields it once, when the
\* connection is established.
StreamOpen ==
    /\ pc = "stream"
    /\ events = << >>
    /\ events' = Append(events, Event("Open", NoData))
    /\ UNCHANGED << options, messages, pc, full_message, es, stdout, call_start,
                    requests, response, readline, delivered, stripped, body,
                    history >>

\* Mutant of StreamDone: an empty accumulator is reported as an error
StreamDone_rejects_empty ==
    /\ pc = "stream"
    /\ events' = Append(events, Event("Message", DoneData))
    /\ stdout' = stdout \o <<NL>>
    /\ es' = drop(es)
    /\ Return(IF full_message = DefaultMessage THEN Err ELSE Ok(full_message))
    /\ UNCHANGED << options, full_message, call_start, requests, readline,
                    delivered, stripped, body, history >>

\* Ok(Event::Message(message)) if message.data == "[DONE]": println!(),
\* break, and the accumulator is returned
StreamDone ==
    /\ pc = "stream"
    /\ events' = Append(events, Event("Message", DoneData))
    /\ stdout' = stdout \o <<NL>>
    /\ es' = drop(es)
    /\ Return(Ok(full_message))
    /\ UNCHANGED << options, full_message, call_start, requests, readline,
                    delivered, stripped, body, history >>

\* Mutant of StreamMessage: a frame that does not parse is skipped
StreamMessage_skips_unparsed(data) ==
    /\ pc = "stream"
    /\ data.kind # "done"
    /\ events' = Append(events, Event("Message", data))
    /\ LET message == from_str(data)
       IN  IF ~message.ok
           THEN UNCHANGED << messages, pc, es, response, full_message, stdout,
                             delivered, stripped >>
           ELSE IF message.choices = << >>
           THEN /\ pc' = "panic"
                /\ es' = drop(es)
                /\ UNCHANGED << messages, response, full_message, stdout, delivered,
                                stripped >>
           ELSE LET delta == message.choices[1].delta
                IN  /\ delivered < MaxEvents
                    /\ delivered' = delivered + 1
                    /\ full_message' = accumulate(full_message, delta)
                    /\ stdout' = stdout \o printed(full_message, delta)
                    /\ stripped' = IF /\ delta.content # None
                                      /\ printed(full_message, delta) # delta.content[1]
                                   THEN stripped + 1
                                   ELSE stripped
                    /\ UNCHANGED << messages, pc, es, response >>
    /\ UNCHANGED << options, call_start, requests, readline, body, history >>

\* Ok(Event::Message(message)), any other data
StreamMessage(data) ==
    /\ pc = "stream"
    /\ data.kind # "done"
    /\ events' = Append(events, Event("Message", data))
    /\ LET message == from_str(data)
       IN  IF ~message.ok
           THEN \* serde_json::from_str(..)? returns the error
                /\ es' = drop(es)
                /\ Return(Err)
                /\ UNCHANGED << full_message, stdout, delivered, stripped >>
           ELSE IF message.choices = << >>
           THEN \* choices.into_iter().next().unwrap() panics on None
                /\ pc' = "panic"
                /\ es' = drop(es)
                /\ UNCHANGED << messages, response, full_message, stdout, delivered,
                                stripped >>
           ELSE LET delta == message.choices[1].delta
                IN  /\ delivered < MaxEvents
                    /\ delivered' = delivered + 1
                    /\ full_message' = accumulate(full_message, delta)
                    /\ stdout' = stdout \o printed(full_message, delta)
                    /\ stripped' = IF /\ delta.content # None
                                      /\ printed(full_message, delta) # delta.content[1]
                                   THEN stripped + 1
                                   ELSE stripped
                    /\ UNCHANGED << messages, pc, es, response >>
    /\ UNCHANGED << options, call_start, requests, readline, body, history >>

\* Mutant of StreamError: the loop is left with break instead of bail!
StreamError_break ==
    /\ pc = "stream"
    /\ events' = Append(events, Event("Err", NoData))
    /\ es' = "closed"
    /\ Return(Ok(full_message))
    /\ UNCHANGED << options, full_message, stdout, call_start, requests, readline,
                    delivered, stripped, body, history >>

\* Err(err): es.close() and bail!
StreamError ==
    /\ pc = "stream"
    /\ events' = Append(events, Event("Err", NoData))
    /\ es' = "closed"
    /\ Return(Err)
    /\ UNCHANGED << options, full_message, stdout, call_start, requests, readline,
                    delivered, stripped, body, history >>

\* Mutant of StreamEnd: a stream that ends without [DONE] is an error
StreamEnd_as_error ==
    /\ pc = "stream"
    /\ events' = Append(events, Event("End", NoData))
    /\ es' = drop(es)
    /\ Return(Err)
    /\ UNCHANGED << options, full_message, stdout, call_start, requests, readline,
                    delivered, stripped, body, history >>

\* es.next() returns None: the while loop ends and the accumulator is returned
StreamEnd ==
    /\ pc = "stream"
    /\ events' = Append(events, Event("End", NoData))
    /\ es' = drop(es)
    /\ Return(Ok(full_message))
    /\ UNCHANGED << options, full_message, stdout, call_start, requests, readline,
                    delivered, stripped, body, history >>

----------------------------------------------------------------------------
(* do_non_stream_request *)

\* req.send().await?.json().await? fails: transport or JSON-shape error
NonStreamError ==
    /\ pc = "non_stream"
    /\ Return(Err)
    /\ UNCHANGED << options, full_message, es, events, stdout, call_start,
                    requests, readline, delivered, stripped, body, history >>

\* Mutant of strip_message: only the newline is removed (strip_prefix)
strip_message_newline_only(content) ==
    IF StartsWithNewline(content) THEN Tail(content) ELSE content

\* message.content after "Sometimes the response starts with a newline.
\* Strip it here."
strip_message(content) ==
    IF StartsWithNewline(content) THEN trim_start(content) ELSE content

\* The body parsed as a ResponseMessage with the given choices
NonStreamResponse(choices) ==
    /\ pc = "non_stream"
    /\ body' = Some(choices)
    /\ IF choices = << >>
       THEN \* response.choices[0] panics: index out of bounds
            /\ pc' = "panic"
            /\ UNCHANGED << messages, response, stdout >>
       ELSE LET message == choices[1].message
                content == strip_message(message.content)
            IN  /\ stdout' = stdout \o content \o <<NL>>
                /\ Return(Ok(Message(message.role, content)))
    /\ UNCHANGED << options, full_message, es, events, call_start, requests,
                    readline, delivered, stripped, history >>

----------------------------------------------------------------------------

Next ==
    \/ run_one_shot
    \/ run_interactive
    \/ ReadEmptyLine
    \/ \E line \in Lines : ReadLine(line)
    \/ \E signal \in {"CTRL-C", "CTRL-D"}, history_ok \in BOOLEAN :
          ReadBreak(signal, history_ok)
    \/ ReadError
    \/ StreamOpen
    \/ StreamDone
    \/ \E data \in StreamData : StreamMessage(data)
    \/ StreamError
    \/ StreamEnd
    \/ NonStreamError
    \/ \E choices \in Bodies : NonStreamResponse(choices)

Spec == Init /\ [][Next]_vars

----------------------------------------------------------------------------
(* Observations on the events of the current do_stream_request *)

LastEvent == events[Len(events)]

IsDelta(e) ==
    e.type = "Message" /\ e.data.kind = "json" /\ e.data.choices # << >>

DeltaOf(e) == e.data.choices[1].delta

ContentOnly(e) ==
    IsDelta(e) /\ DeltaOf(e).role = None /\ DeltaOf(e).content # None

\* The data frames among the events (the stream-opened event is no frame)
DataFrames == SelectSeq(events, LAMBDA e : e.type = "Message")

\* The call saw content-only delta frames and then [DONE], nothing else
ContentOnlyThenDone ==
    /\ \A i \in 1..Len(events) : events[i].type \in {"Open", "Message"}
    /\ Len(DataFrames) >= 1
    /\ DataFrames[Len(DataFrames)].data = DoneData
    /\ \A i \in 1..(Len(DataFrames) - 1) : ContentOnly(DataFrames[i])

\* c1, ..., cn of such a call
ContentFragments ==
    [i \in 1..(Len(DataFrames) - 1) |-> DeltaOf(DataFrames[i]).content[1]]

RECURSIVE Concat(_)
Concat(ss) == IF Len(ss) = 0 THEN << >> ELSE Head(ss) \o Concat(Tail(ss))

Min(S) == CHOOSE x \in S : \A y \in S : x <= y

\* What the current call has printed
PrintedInCall == SubSeq(stdout, call_start + 1, Len(stdout))

----------------------------------------------------------------------------
(* C1 *)

\* c1 + ... + cn with only a leading newline of c1 removed
ConcatLessOneNewline(cs) ==
    IF Len(cs) > 0 /\ Len(cs[1]) > 0 /\ cs[1][1] = NL
    THEN Tail(cs[1]) \o Concat(Tail(cs))
    ELSE Concat(cs)

\* C1 as stated: after content-only delta frames c1..cn and [DONE],
\* do_stream_request returns a Message whose content is c1 + ... + cn with
\* nothing but one leading newline of c1 removed.
C1_OnlyOneNewlineRemoved ==
    ContentOnlyThenDone =>
        /\ response = Some(Ok(full_message))
        /\ full_message.content = ConcatLessOneNewline(ContentFragments)

\* A fragment without its leading whitespace, when it begins with a newline
WithoutLeadingWhitespace(c) ==
    LET black == { i \in 1..Len(c) : c[i] \notin {NL, SP} }
    IN  IF Len(c) = 0 \/ c[1] # NL THEN c
        ELSE IF black = {} THEN << >>
        ELSE SubSeq(c, Min(black), Len(c))

\* The fragments up to the first one that leaves something after that
\* removal arrive while the content is empty; the later ones are appended raw
ConcatLessLeadingWhitespace(cs) ==
    LET live == { i \in 1..Len(cs) : WithoutLeadingWhitespace(cs[i]) # << >> }
    IN  IF live = {} THEN << >>
        ELSE WithoutLeadingWhitespace(cs[Min(live)])
                 \o Concat(SubSeq(cs, Min(live) + 1, Len(cs)))

\* C1 amended: after content-only delta frames c1..cn and [DONE],
\* do_stream_request returns a Message whose content is c1 + ... + cn in
\* which every fragment that begins with a newline and arrives while the
\* accumulated content is still empty has lost all its leading whitespace;
\* the fragments that arrive once the content is non-empty are unchanged.
C1_LeadingWhitespaceRemoved ==
    ContentOnlyThenDone =>
        /\ response = Some(Ok(full_message))
        /\ full_message.content = ConcatLessLeadingWhitespace(ContentFragments)

\* Two fragments, the first only a newline, the second stripped as well
C1_Witness ==
    /\ ContentOnlyThenDone
    /\ Len(ContentFragments) = 2
    /\ ContentFragments[1] = <<NL>>
    /\ ContentFragments[2] = <<NL, SP, "a">>
    /\ response = Some(Ok(Message(<< >>, <<"a">>)))

----------------------------------------------------------------------------
(* C2 *)

\* C2 as stated: within one call the stripping changes at most one
\* content fragment.
C2_AtMostOneFragmentStripped == stripped <= 1

\* C2 amended: the stripping changes only fragments that arrive while the
\* accumulated content is empty; once the content is non-empty every later
\* content fragment is printed and accumulated as it came.
C2_NoStripOnceNonEmpty ==
    [][ ( /\ pc = "stream"
          /\ full_message.content # << >>
          /\ Len(events') = Len(events) + 1
          /\ IsDelta(events'[Len(events')])
          /\ DeltaOf(events'[Len(events')]).content # None )
        => LET c == DeltaOf(events'[Len(events')]).content[1]
           IN  /\ full_message'.content = full_message.content \o c
               /\ stdout' = stdout \o c
               /\ stripped' = stripped ]_vars

\* A fragment beginning with a newline that followed a stripped fragment
\* and was kept as it came
C2_Witness ==
    /\ pc = "stream"
    /\ stripped = 1
    /\ Len(events) = 2
    /\ IsDelta(events[1]) /\ DeltaOf(events[1]).content = Some(<<NL, "a">>)
    /\ IsDelta(events[2]) /\ DeltaOf(events[2]).content = Some(<<NL, "a">>)
    /\ full_message.content = <<"a", NL, "a">>

----------------------------------------------------------------------------
(* C3 *)

\* C3: a data frame that serde_json::from_str rejects ends
\* do_stream_request with an error, whatever came before it: it is the last
\* event of the call, no Message is returned and the session ends with the
\* error (the transcript keeps the user message as its last element).
C3_UnparsedFrameFails ==
    \A i \in 1..Len(events) :
        events[i] = Event("Message", GarbageData) =>
            /\ i = Len(events)
            /\ response = Some(Err)
            /\ pc = "exit_err"
            /\ messages = requests[Len(requests)].messages

\* A frame that does not parse, after a delta frame that carried content
C3_Witness ==
    /\ Len(events) >= 2
    /\ LastEvent = Event("Message", GarbageData)
    /\ full_message.content # << >>
    /\ response = Some(Err)

----------------------------------------------------------------------------
(* C4 *)

EmptyChoicesFrame == Event("Message", JsonData(<< >>))

\* C4 as stated: a data frame that parses but has an empty choices array
\* makes do_stream_request return an error, which ends the session the way
\* a transport error does.
C4_EmptyChoicesIsError ==
    (Len(events) > 0 /\ LastEvent = EmptyChoicesFrame) =>
        /\ response = Some(Err)
        /\ pc = "exit_err"

----------------------------------------------------------------------------
(* C5 *)

\* C5: on a transport error do_stream_request closes the event source and
\* returns an error, not the accumulator; the session ends with the error,
\* the transcript is not extended and what was printed stays as it is.
C5_TransportErrorFails ==
    [][ (pc = "stream" /\ events' = Append(events, Event("Err", NoData)))
        => /\ es' = "closed"
           /\ response' = Some(Err)
           /\ pc' = "exit_err"
           /\ messages' = messages
           /\ stdout' = stdout ]_vars

\* A transport error after content was printed and accumulated
C5_Witness ==
    /\ Len(events) >= 2
    /\ LastEvent = Event("Err", NoData)
    /\ full_message.content # << >>
    /\ PrintedInCall = full_message.content
    /\ es = "closed"
    /\ response = Some(Err)

----------------------------------------------------------------------------
(* C6 *)

\* C6: the event source of do_stream_request is released on every way out
\* of the call ([DONE], end of the events, a frame that does not parse, an
\* empty choices array, a transport error): it is open only while the call
\* is consuming events.
C6_EventSourceReleased ==
    /\ es = "open" => pc = "stream"
    /\ (Len(events) > 0 /\ LastEvent.type = "Err") => es = "closed"
    /\ ( /\ Len(events) > 0
         /\ \/ LastEvent.type = "End"
            \/ LastEvent.type = "Message" /\ ~IsDelta(LastEvent) )
       => es = "dropped"

\* The way out by the panic on an empty choices array
C6_Witness ==
    /\ pc = "panic"
    /\ Len(events) >= 2
    /\ LastEvent = EmptyChoicesFrame
    /\ es = "dropped"

----------------------------------------------------------------------------
(* C7 *)

\* The request of every turn carries the transcript as it is now, up to
\* and including the user message of that turn
RequestsCarryTranscript ==
    \A j \in 1..Len(requests) :
        /\ 2 * j - 1 <= Len(messages)
        /\ requests[j].messages = SubSeq(messages, 1, 2 * j - 1)
        /\ messages[2 * j - 1].role = <<"user">>

\* C7 as stated: between the turns of run_interactive the transcript holds
\* two messages per request, with roles user, assistant, user, assistant,
\* ..., and the request of turn j carried the first 2j-1 of them.
C7_RolesAlternate ==
    (interactive /\ pc = "readline") =>
        /\ Len(messages) = 2 * Len(requests)
        /\ \A i \in 1..Len(messages) :
              messages[i].role =
                  IF i % 2 = 1 THEN <<"user">> ELSE <<"assistant">>
        /\ RequestsCarryTranscript

\* C7 amended: between the turns of run_interactive the transcript holds
\* two messages per request; the odd ones are the user messages (role
\* user), the even ones are the Messages the completions returned, with
\* the role the server delivered (empty when it sent none), and the request
\* of turn j carried the first 2j-1 of them, unmodified and in order.
C7_TranscriptGrowth ==
    interactive =>
        /\ RequestsCarryTranscript
        /\ pc = "readline" =>
              /\ Len(messages) = 2 * Len(requests)
              /\ Len(requests) > 0 =>
                    response = Some(Ok(messages[Len(messages)]))

\* Two turns done, the first answered without a role
C7_Witness ==
    /\ interactive
    /\ pc = "readline"
    /\ Len(requests) = 2
    /\ Len(messages) = 4
    /\ messages[2].role = << >>
    /\ messages[2].content # << >>
    /\ messages[4].role = <<"assistant">>

----------------------------------------------------------------------------
(* C8 *)

\* C8: reading an empty line in run_interactive leaves the transcript
\* unchanged, sends no request, prints nothing and goes back to reading.
C8_EmptyLineIgnored ==
    [][ (pc = "readline" /\ readline' = "Ok(empty)")
        => /\ messages' = messages
           /\ requests' = requests
           /\ stdout' = stdout
           /\ pc' = "readline" ]_vars

\* An empty line read after a completed turn
C8_Witness ==
    /\ pc = "readline"
    /\ readline = "Ok(empty)"
    /\ Len(messages) = 2
    /\ Len(requests) = 1

----------------------------------------------------------------------------
(* C9 *)

\* C9: when [DONE] is the first data frame, after at most a stream-opened
\* event, do_stream_request prints a newline and nothing else and returns,
\* without error, the Message with empty role and empty content.
C9_DoneFirst ==
    [][ ( /\ pc = "stream"
          /\ events \in { << >>, << Event("Open", NoData) >> }
          /\ events' = Append(events, Event("Message", DoneData)) )
        => /\ response' = Some(Ok(Message(<< >>, << >>)))
           /\ Len(stdout) = call_start
           /\ stdout' = stdout \o <<NL>>
           /\ pc' \in {"readline", "exit_ok"} ]_vars

\* [DONE] right after the stream-opened event
C9_Witness ==
    /\ events = << Event("Open", NoData), Event("Message", DoneData) >>
    /\ response = Some(Ok(Message(<< >>, << >>)))
    /\ PrintedInCall = <<NL>>

----------------------------------------------------------------------------
(* C10 *)

EmptyDeltaFrame ==
    Event("Message", JsonData(<< [delta |-> [role |-> None, content |-> None]] >>))

\* C10: a delta frame with neither role nor content leaves the
\* accumulator as it is and prints nothing, whatever the accumulator holds,
\* and the call goes on.
C10_EmptyDeltaNoOp ==
    [][ (pc = "stream" /\ events' = Append(events, EmptyDeltaFrame))
        => /\ full_message' = full_message
           /\ stdout' = stdout
           /\ pc' = "stream"
           /\ es' = es ]_vars

\* An empty delta frame met with a role and content in the accumulator
C10_Witness ==
    /\ pc = "stream"
    /\ Len(events) >= 2
    /\ LastEvent = EmptyDeltaFrame
    /\ full_message.role # << >>
    /\ full_message.content # << >>

----------------------------------------------------------------------------
(* C11 *)

\* do_non_stream_request has returned for a body with a candidate
NonStreamReturned ==
    body # None /\ body[1] # << >> /\ response # None

FirstCandidate == body[1][1].message

\* C11 as stated: do_non_stream_request returns the first candidate's
\* message with nothing but one leading newline of its content removed.
C11_OnlyNewlineRemoved ==
    NonStreamReturned =>
        response = Some(Ok(Message(FirstCandidate.role,
                                   IF /\ Len(FirstCandidate.content) > 0
                                      /\ FirstCandidate.content[1] = NL
                                   THEN Tail(FirstCandidate.content)
                                   ELSE FirstCandidate.content)))

\* C11 amended: do_non_stream_request returns the first candidate's
\* message, with all the leading whitespace of its content removed when
\* the content begins with a newline, and unchanged when it does not.
C11_LeadingWhitespaceRemoved ==
    NonStreamReturned =>
        response = Some(Ok(Message(FirstCandidate.role,
                                   WithoutLeadingWhitespace(FirstCandidate.content))))

\* A first candidate with whitespace after its newline, and a second one
C11_Witness ==
    /\ NonStreamReturned
    /\ Len(body[1]) = 2
    /\ FirstCandidate.content = <<NL, SP, "a">>
    /\ response = Some(Ok(Message(<<"assistant">>, <<"a">>)))

----------------------------------------------------------------------------
(* C12 *)

Signals == { "Err(Interrupted)", "Err(Eof)" }

\* C12 as stated: after an interrupt or end-of-input signal the session
\* has ended successfully, and after any other read failure with an error.
C12_SignalEndsInSuccess ==
    /\ readline \in Signals => pc = "exit_ok"
    /\ readline = "Err(other)" => pc = "exit_err"

\* C12 amended: an interrupt or end-of-input signal ends the loop with no
\* message appended and no request sent, and is not itself an error: the
\* session then ends with the result of rl.append_history, successfully
\* when the history file was appended and with its error when it was not.
\* Any other read failure ends the session with an error.
C12_SignalEndsLoop ==
    [][ (pc = "readline" /\ readline' \in Signals \cup {"Err(other)"})
        => /\ messages' = messages
           /\ requests' = requests
           /\ IF readline' \in Signals
              THEN /\ history' \in {"appended", "failed"}
                   /\ pc' = IF history' = "appended" THEN "exit_ok" ELSE "exit_err"
              ELSE /\ history' = history
                   /\ pc' = "exit_err" ]_vars

\* End of input after a completed turn, the history file appended
C12_Witness ==
    /\ readline = "Err(Eof)"
    /\ history = "appended"
    /\ pc = "exit_ok"
    /\ Len(messages) = 2
    /\ Len(requests) = 1

----------------------------------------------------------------------------
(* C13 *)

\* The words with one space between neighbours
RECURSIVE JoinedBySpaces(_)
JoinedBySpaces(ws) ==
    IF Len(ws) = 0 THEN << >>
    ELSE IF Len(ws) = 1 THEN ws[1]
    ELSE JoinedBySpaces(SubSeq(ws, 1, Len(ws) - 1)) \o <<SP>> \o ws[Len(ws)]

\* The transcript and the requests of run_one_shot once it has started
OneShotSentOnce ==
    /\ messages = << Message(<<"user">>, JoinedBySpaces(options.prompt)) >>
    /\ Len(requests) = 1
    /\ requests[1].messages = messages

\* C13 as stated: run_one_shot starts from an empty transcript, appends the
\* one user message made of the prompt words joined by single spaces,
\* sends the one request that carries it, and then the session ends:
\* successfully when the completion returned a Message, with the
\* completion's error otherwise.
C13_OneShot ==
    ~interactive =>
        /\ pc = "main" => messages = << >> /\ requests = << >>
        /\ pc # "main" => OneShotSentOnce
        /\ pc \notin {"main", "stream", "non_stream"} =>
              \/ pc = "exit_ok" /\ response # None /\ response[1].ok
              \/ pc = "exit_err" /\ response = Some(Err)

----------------------------------------------------------------------------
(* C14 *)

\* The current completion has failed: a transport error, or a protocol
\* error (a frame or body that does not parse, an empty choices array)
CompletionFailed ==
    \/ response = Some(Err)
    \/ /\ Len(events) > 0
       /\ LastEvent \in { Event("Err", NoData), Event("Message", GarbageData),
                          EmptyChoicesFrame }
    \/ body = Some(<< >>)

\* The transcript ends with the user message of the failed turn
FailedTurnLeftInTranscript ==
    /\ Len(messages) = 2 * Len(requests) - 1
    /\ messages = requests[Len(requests)].messages
    /\ messages[Len(messages)].role = <<"user">>

\* C14 as stated: when a completion of run_interactive fails, the session
\* has ended with that error, and the user message of the failed turn is
\* the last element of the transcript (no assistant message was appended).
C14_FailureEndsSession ==
    (interactive /\ CompletionFailed) =>
        /\ pc = "exit_err"
        /\ response = Some(Err)
        /\ FailedTurnLeftInTranscript

----------------------------------------------------------------------------
(* C15 *)

IsPrefix(s, t) == Len(s) <= Len(t) /\ SubSeq(t, 1, Len(s)) = s

\* C15: do_stream_request starts with an accumulator whose role and
\* content are empty, and every event it processes leaves the old role a
\* prefix of the new role and the old content a prefix of the new content.
C15_AccumulatorGrows ==
    [][ /\ (pc # "stream" /\ pc' = "stream")
            => full_message'.role = << >> /\ full_message'.content = << >>
        /\ pc = "stream"
            => /\ IsPrefix(full_message.role, full_message'.role)
               /\ IsPrefix(full_message.content, full_message'.content) ]_vars

\* Two delta frames that each extended the role and the content
C15_Witness ==
    /\ pc = "stream"
    /\ Len(events) = 2
    /\ full_message.role = <<"assistant", "assistant">>
    /\ full_message.content = <<"a", NL, "a">>

----------------------------------------------------------------------------
(* C16 *)

\* The stream of the current call was one frame with a content fragment and
\* then [DONE], and the call has returned
OneFragmentThenDone ==
    /\ \A i \in 1..Len(events) : events[i].type \in {"Open", "Message"}
    /\ Len(DataFrames) = 2
    /\ IsDelta(DataFrames[1])
    /\ DeltaOf(DataFrames[1]).content # None
    /\ DataFrames[2].data = DoneData
    /\ response # None

TheFragment == DeltaOf(DataFrames[1]).content[1]

\* run_interactive has printed nothing after the last call returned
NothingPrintedSince == history = "unsaved"

\* C16: for a stream made of one content fragment c followed by [DONE], and a
\* non-streaming body whose first candidate has content c, the two paths
\* return the same content and print the same text, the content followed by
\* one newline: what do_stream_request returned and printed is what the
\* non-streaming rule gives for c, and what do_non_stream_request returned
\* and printed is what the streaming rule gives for c as the first fragment.
C16_SameContentAndText ==
    /\ OneFragmentThenDone /\ NothingPrintedSince =>
          /\ response[1].ok
          /\ response[1].msg.content = strip_message(TheFragment)
          /\ PrintedInCall = strip_message(TheFragment) \o <<NL>>
    /\ NonStreamReturned /\ NothingPrintedSince =>
          /\ response[1].ok
          /\ response[1].msg.content
                 = strip_leading(FirstCandidate.content, << >>)
          /\ PrintedInCall
                 = strip_leading(FirstCandidate.content, << >>) \o <<NL>>

\* The streaming path returned "a" for the fragment "\n a"
C16_Witness ==
    /\ OneFragmentThenDone
    /\ TheFragment = <<NL, SP, "a">>
    /\ response[1].ok
    /\ response[1].msg.content = <<"a">>
    /\ PrintedInCall = <<"a", NL>>

----------------------------------------------------------------------------
(* C17 *)

\* The body {"choices": []}: it parses, and has no candidate
EmptyChoicesBody == body = Some(<< >>)

\* do_non_stream_request returned an error
NonStreamFailed ==
    options.no_stream /\ response # None /\ ~response[1].ok

\* C17 as stated: in do_non_stream_request a transport failure or a body
\* that is no Response Envelope, a body with no candidate in choices
\* included, is returned as an error, and in every such case nothing has
\* been printed.
C17_FailureIsError ==
    /\ EmptyChoicesBody => response = Some(Err) /\ pc = "exit_err"
    /\ (EmptyChoicesBody \/ NonStreamFailed) => PrintedInCall = << >>

----------------------------------------------------------------------------
(* C18 *)

\* A request without its messages field
Configuration(req) ==
    [ model |-> req.model, stream |-> req.stream,
      temperature |-> req.temperature, top_p |-> req.top_p ]

\* All requests of the session carry the options of the session, and differ
\* in their messages
SameConfiguration ==
    /\ \A i \in 1..Len(requests) :
          Configuration(requests[i])
              = [ model |-> options.model, stream |-> ~options.no_stream,
                  temperature |-> options.temperature,
                  top_p |-> options.top_p ]
    /\ \A i, j \in 1..Len(requests) :
          i < j => Len(requests[i].messages) < Len(requests[j].messages)

\* The path a call is on, and the traces a path leaves, follow the stream
\* flag of the session
SamePath ==
    /\ pc = "stream" => ~options.no_stream
    /\ pc = "non_stream" => options.no_stream
    /\ (es # "none" \/ events # << >>) => ~options.no_stream
    /\ body # None => options.no_stream

\* C18: every request built by complete_and_print during one session
\* carries the same model, stream flag, temperature and top_p, only the
\* messages field differs between requests, and every turn takes the same
\* path, streaming or non-streaming: the options never change.
C18_SameConfiguration ==
    /\ [](SameConfiguration /\ SamePath)
    /\ [][options' = options]_vars

\* A second request in a session whose command line set the options
C18_Witness ==
    /\ Len(requests) = 2
    /\ options.temperature = Some("0.8")
    /\ requests[2].temperature = Some("0.8")
    /\ requests[2].top_p = Some("0.1")
    /\ requests[1].messages # requests[2].messages
    /\ pc \in {"stream", "non_stream"}

----------------------------------------------------------------------------
(* C19 *)

\* The events of the current call ended with [DONE] and the call returned
StreamDoneReturned ==
    /\ Len(events) > 0
    /\ LastEvent = Event("Message", DoneData)
    /\ response # None

\* C19: in do_stream_request, after every processed event the text printed
\* so far for the current message, before the trailing newline, is the
\* content of the accumulator, so that the content returned after [DONE] is
\* what was printed before the trailing newline.
C19_PrintedIsAccumulated ==
    /\ pc = "stream" => PrintedInCall = full_message.content
    /\ StreamDoneReturned /\ NothingPrintedSince =>
          /\ response = Some(Ok(full_message))
          /\ PrintedInCall = full_message.content \o <<NL>>

\* A stripped first fragment and a second one that kept its newline
C19_Witness ==
    /\ pc = "stream"
    /\ stripped = 1
    /\ Len(DataFrames) = 2
    /\ full_message.content = <<"a", NL, "a">>
    /\ PrintedInCall = <<"a", NL, "a">>

----------------------------------------------------------------------------
(* C20 *)

\* The step on which es.next() yields None
Exhausted == pc = "stream" /\ events' = Append(events, Event("End", NoData))

\* C20: when the event sequence of do_stream_request is exhausted without a
\* [DONE] sentinel and without an error event, the call returns the
\* accumulator assembled so far as a successful Message and prints no
\* trailing newline, and in interactive mode that Message is appended to the
\* transcript as the assistant turn and the loop goes on.
C20_ExhaustedReturnsPartial ==
    [][ Exhausted =>
          /\ response' = Some(Ok(full_message))
          /\ full_message' = full_message
          /\ stdout' = stdout
          /\ IF interactive
             THEN messages' = Append(messages, full_message) /\ pc' = "readline"
             ELSE messages' = messages /\ pc' = "exit_ok" ]_vars

\* An interactive turn whose stream ended after one fragment
C20_Witness ==
    /\ interactive
    /\ pc = "readline"
    /\ Len(events) > 0
    /\ LastEvent = Event("End", NoData)
    /\ full_message.content = <<"a">>
    /\ response = Some(Ok(full_message))
    /\ messages[Len(messages)] = full_message
    /\ PrintedInCall = <<"a">>

====
